---------------------------- MODULE Spec2Model ----------------------------
(***************************************************************************)
(* Model of main.go: a one-shot pipeline that reads (retailer_id,          *)
(* branch_count) lines from a CSV file and, for every row of the merchant  *)
(* table whose branch_count is NULL, writes the value from the file.       *)
(*                                                                         *)
(* Four goroutines take part in handleMerchant: the caller (Main), the     *)
(* consumer (first go func), the producer (second go func, running         *)
(* fileLoader) and the closer (third go func).  They meet on the           *)
(* unbuffered channels pipe and done and on the wait group wg.             *)
(***************************************************************************)
EXTENDS Integers, Sequences, FiniteSets, TLC

(***************************************************************************)
(* Bounds of the model.                                                    *)
(***************************************************************************)
MaxLines == 2

MaxOtherWrites == 1

(***************************************************************************)
(* 64-bit integers.  An int64 is kept as its two's complement bit pattern, *)
(* four 16-bit limbs, least significant first.                             *)
(***************************************************************************)
Base == 256 * 256

Half == Base \div 2

Zero64 == <<0, 0, 0, 0>>

\* m * 10 + d on an unsigned 64-bit pattern; ovf when the result needs a 65th bit.
MulAdd10(m, d) ==
    LET c1 == m[1] * 10 + d
        c2 == m[2] * 10 + (c1 \div Base)
        c3 == m[3] * 10 + (c2 \div Base)
        c4 == m[4] * 10 + (c3 \div Base)
    IN  [val |-> <<c1 % Base, c2 % Base, c3 % Base, c4 % Base>>,
         ovf |-> c4 \div Base > 0]

\* Two's complement negation of a 64-bit pattern.
Neg64(m) ==
    LET n1 == (Base - 1 - m[1]) + 1
        n2 == (Base - 1 - m[2]) + (n1 \div Base)
        n3 == (Base - 1 - m[3]) + (n2 \div Base)
        n4 == (Base - 1 - m[4]) + (n3 \div Base)
    IN  <<n1 % Base, n2 % Base, n3 % Base, n4 % Base>>

Digits == <<"0", "1", "2", "3", "4", "5", "6", "7", "8", "9">>

IsDigit(c) == \E i \in 1..10 : Digits[i] = c

DigitVal(c) == (CHOOSE i \in 1..10 : Digits[i] = c) - 1

ParseFailed == [ok |-> FALSE, val |-> Zero64]

\* The element of a one-element set.
The(S) == CHOOSE x \in S : TRUE

\* strconv.ParseUint(s, 10, 64) on a sequence of characters, from character
\* i on, acc being the value of the digits before it.
RECURSIVE ParseDigits(_, _, _)
ParseDigits(s, i, acc) ==
    IF i > Len(s) THEN [ok |-> TRUE, val |-> acc]
    ELSE IF ~IsDigit(s[i]) THEN ParseFailed
    ELSE The({IF r.ovf THEN ParseFailed ELSE ParseDigits(s, i + 1, r.val) :
                 r \in {MulAdd10(acc, DigitVal(s[i]))}})

\* strconv.ParseInt(s, 10, 64): an optional sign, decimal digits, and the
\* magnitude within the signed 64-bit range.
ParseInt(s) ==
    IF s = <<>> THEN ParseFailed
    ELSE LET neg   == s[1] = "-"
             first == IF s[1] \in {"-", "+"} THEN 2 ELSE 1
             cut   == <<0, 0, 0, Half>>
         IN  IF first > Len(s) THEN ParseFailed
             ELSE The({IF ~un.ok THEN ParseFailed
                       ELSE IF ~neg /\ un.val[4] >= Half THEN ParseFailed
                       ELSE IF neg /\ un.val[4] >= Half /\ un.val # cut
                            THEN ParseFailed
                       ELSE [ok |-> TRUE,
                             val |-> IF neg THEN Neg64(un.val) ELSE un.val] :
                          un \in {ParseDigits(s, first, Zero64)}})

\* The conversion int32(v) of an int64: the low 32 bits, read as signed.
NarrowInt32(v) ==
    IF v[2] >= Half THEN (v[2] - Base) * Base + v[1] ELSE v[2] * Base + v[1]

\* The int64 whose value is the int32 n (sign extension).
Widen(n) ==
    LET lo == n % Base
        hi == ((n - lo) \div Base) % Base
        ext == IF n < 0 THEN Base - 1 ELSE 0
    IN  <<lo, hi, ext, ext>>

(***************************************************************************)
(* The input file retail.csv: a sequence of records, each a sequence of    *)
(* fields, each a sequence of characters.  encoding/csv never returns an   *)
(* empty record.                                                           *)
(***************************************************************************)
\* 4294967305 = 2^32 + 9 is a valid int64 outside the int32 range.
BigField == <<"4", "2", "9", "4", "9", "6", "7", "3", "0", "5">>

\* Sample records: valid ones on keys 1 and 2, one whose id and one whose
\* count is not a number, one whose count exceeds int32, one of one field.
SampleLines ==
    {<<<<"1">>, <<"7">>>>, <<<<"1">>, <<"9">>>>, <<<<"2">>, <<"7">>>>,
     <<<<"x">>, <<"7">>>>, <<<<"1">>, <<"x">>>>, <<<<"1">>, BigField>>,
     <<<<"1">>>>}

RECURSIVE FilesOfLen(_)
FilesOfLen(n) ==
    IF n = 0 THEN {<<>>}
    ELSE {Append(f, l) : f \in FilesOfLen(n - 1), l \in SampleLines}

Files == UNION {FilesOfLen(n) : n \in 0..MaxLines}

(***************************************************************************)
(* The merchant table.  A row is present iff its key is in DOMAIN table;   *)
(* branch_count is NULL (<<>>) or a one-element sequence holding an int32. *)
(***************************************************************************)
NULL == <<>>

Some(v) == <<v>>

Keys == {Widen(1), Widen(2)}

ExpireOf(k) == 1000 + k[1]

InitialCounts == {NULL, Some(3)}

Tables ==
    UNION {[ks -> InitialCounts] : ks \in SUBSET Keys}

RowsOf(t) ==
    [k \in DOMAIN t |-> [branch_count |-> t[k], expire_at |-> ExpireOf(k)]]

(***************************************************************************)
(* State.                                                                  *)
(***************************************************************************)
VARIABLES
    file,        \* contents of retail.csv
    table,       \* the merchant table
    table0,      \* the merchant table when the current run started
    prev,        \* summaries of the earlier runs of the program
    otherWrites, \* number of writes made by other writers of the table
    crashed,     \* the process died of an unrecovered panic
    pcMain,      \* position of handleMerchant's caller goroutine
    db,          \* the *gorm.DB handle of handleMerchant
    dbFailed,    \* newDB returned an error in this run
    wg,          \* counter of the sync.WaitGroup
    pipeClosed,  \* close(pipe) has run
    pcCons,      \* position of the consumer goroutine
    cmerchant,   \* the consumer's variable merchant
    mrow,        \* updateBranchCount's variable merchant
    pcProd,      \* position of the producer goroutine (fileLoader)
    fileOpen,    \* the file handle is open
    pos,         \* number of records the csv reader has returned
    nfields,     \* the csv reader's FieldsPerRecord
    line,        \* fileLoader's variable line
    prodErr,     \* the error fileLoader returns
    prodPanic,   \* fileLoader is panicking
    merchant,    \* fileLoader's variable merchant
    heap,        \* the int32 variables branchCount allocated so far
    pcCloser,    \* position of the closer goroutine
    sent,        \* records handed over on pipe
    calls,       \* arguments of the updateBranchCount calls made
    log,         \* outcome of each updateBranchCount call
    writes       \* UPDATE statements the store has applied

mainVars == <<pcMain, db, dbFailed>>

syncVars == <<wg, pipeClosed>>

consVars == <<pcCons, cmerchant, mrow>>

prodVars == <<pcProd, fileOpen, pos, nfields, line, prodErr, prodPanic, merchant, heap>>

envVars == <<file, table0, prev, otherWrites>>

histVars == <<sent, calls, log, writes>>

vars == <<file, table, table0, prev, otherWrites, crashed, pcMain, db, dbFailed,
          wg, pipeClosed, pcCons, cmerchant, mrow, pcProd, fileOpen, pos,
          nfields, line, prodErr, prodPanic, merchant, heap, pcCloser, sent,
          calls, log, writes>>

\* The zero value of the struct Merchant; BranchCount 0 is the nil pointer.
Merchant == [RetailerID |-> Zero64, BranchCount |-> 0]

ZeroRow == [branch_count |-> NULL, expire_at |-> 0]

\* The state of a process that has just started.
Fresh ==
    /\ crashed = FALSE
    /\ pcMain = "newDB"
    /\ db = "nil"
    /\ dbFailed = FALSE
    /\ wg = 0
    /\ pipeClosed = FALSE
    /\ pcCons = "none"
    /\ cmerchant = Merchant
    /\ mrow = ZeroRow
    /\ pcProd = "none"
    /\ fileOpen = FALSE
    /\ pos = 0
    /\ nfields = 0
    /\ line = <<>>
    /\ prodErr = "nil"
    /\ prodPanic = FALSE
    /\ merchant = Merchant
    /\ heap = <<>>
    /\ pcCloser = "none"
    /\ sent = <<>>
    /\ calls = <<>>
    /\ log = <<>>
    /\ writes = <<>>

Init ==
    /\ file \in Files
    /\ table \in {RowsOf(t) : t \in Tables}
    /\ table0 = table
    /\ prev = <<>>
    /\ otherWrites = 0
    /\ Fresh

Alive == ~crashed

(***************************************************************************)
(* handleMerchant, the calling goroutine.                                  *)
(***************************************************************************)
\* What handleMerchant does when newDB returns an error: it logs the error
\* and goes on.
AfterNewDBError == "goConsumer"

\* db, err := newDB(); if err != nil { logrus.Error(err) }
NewDB ==
    /\ Alive /\ pcMain = "newDB"
    /\ \E ok \in BOOLEAN :
         /\ db' = IF ok THEN "open" ELSE "nil"
         /\ dbFailed' = ~ok
         /\ pcMain' = IF ok THEN "goConsumer" ELSE AfterNewDBError
    /\ UNCHANGED <<envVars, table, crashed, syncVars, consVars, prodVars,
                   pcCloser, histVars>>

\* go func() { for { merchant, more := <-pipe ... } }()
GoConsumer ==
    /\ Alive /\ pcMain = "goConsumer"
    /\ pcMain' = "wgAdd"
    /\ pcCons' = "recv"
    /\ UNCHANGED <<envVars, table, crashed, db, dbFailed, syncVars, cmerchant,
                   mrow, prodVars, pcCloser, histVars>>

\* wg.Add(1)
WgAdd ==
    /\ Alive /\ pcMain = "wgAdd"
    /\ pcMain' = "goProducer"
    /\ wg' = wg + 1
    /\ UNCHANGED <<envVars, table, crashed, db, dbFailed, pipeClosed, consVars,
                   prodVars, pcCloser, histVars>>

\* go func() { err := fileLoader(pipe, &wg) ... }()
GoProducer ==
    /\ Alive /\ pcMain = "goProducer"
    /\ pcMain' = "goCloser"
    /\ pcProd' = "open"
    /\ UNCHANGED <<envVars, table, crashed, db, dbFailed, syncVars, consVars,
                   fileOpen, pos, nfields, line, prodErr, prodPanic, merchant,
                   heap, pcCloser, histVars>>

\* go func() { wg.Wait(); close(pipe) }()
GoCloser ==
    /\ Alive /\ pcMain = "goCloser"
    /\ pcMain' = "waitDone"
    /\ pcCloser' = "wait"
    /\ UNCHANGED <<envVars, table, crashed, db, dbFailed, syncVars, consVars,
                   prodVars, histVars>>

(***************************************************************************)
(* The closer goroutine.                                                   *)
(***************************************************************************)
\* Fault variant of WaitReturns: the closer does not wait for the producer.
WaitReturnsAtOnce(n) == TRUE

\* wg.Wait() blocks until the counter of the wait group is zero.
WaitReturns(n) == n = 0

\* wg.Wait() returns once the counter is zero.
WgWait ==
    /\ Alive /\ pcCloser = "wait"
    /\ WaitReturns(wg)
    /\ pcCloser' = "close"
    /\ UNCHANGED <<envVars, table, crashed, mainVars, syncVars, consVars,
                   prodVars, histVars>>

\* close(pipe)
ClosePipe ==
    /\ Alive /\ pcCloser = "close"
    /\ pipeClosed' = TRUE
    /\ pcCloser' = "exit"
    /\ UNCHANGED <<envVars, table, crashed, mainVars, wg, consVars, prodVars,
                   histVars>>

(***************************************************************************)
(* fileLoader, run by the producer goroutine.                              *)
(***************************************************************************)
\* file, err := os.Open(filePath); if err != nil { return err }
\* The deferred file.Close is registered only after a successful open.
OpenFile ==
    /\ Alive /\ pcProd = "open"
    /\ \E ok \in BOOLEAN :
         /\ fileOpen' = ok
         /\ prodErr' = IF ok THEN "nil" ELSE "open"
         /\ pcProd' = IF ok THEN "read" ELSE "wgDone"
    /\ UNCHANGED <<envVars, table, crashed, mainVars, syncVars, consVars, pos,
                   nfields, line, prodPanic, merchant, heap, pcCloser, histVars>>

\* line, err := reader.Read(): io.EOF at the end of the file, otherwise the
\* next record, or csv.ErrFieldCount when it has not as many fields as the
\* first record had.
ReadRecord ==
    /\ Alive /\ pcProd = "read"
    /\ IF pos = Len(file)
       THEN /\ pcProd' = "closeFile"
            /\ UNCHANGED <<pos, nfields, line, prodErr>>
       ELSE LET l == file[pos + 1]
            IN  /\ pos' = pos + 1
                /\ line' = l
                /\ IF nfields # 0 /\ Len(l) # nfields
                   THEN /\ prodErr' = "fieldCount"
                        /\ pcProd' = "closeFile"
                        /\ UNCHANGED nfields
                   ELSE /\ nfields' = Len(l)
                        /\ pcProd' = "parse"
                        /\ UNCHANGED prodErr
    /\ UNCHANGED <<envVars, table, crashed, mainVars, syncVars, consVars,
                   fileOpen, prodPanic, merchant, heap, pcCloser, histVars>>

\* reader.Read() fails with an I/O error: return err.
ReadIOError ==
    /\ Alive /\ pcProd = "read"
    /\ prodErr' = "io"
    /\ pcProd' = "closeFile"
    /\ UNCHANGED <<envVars, table, crashed, mainVars, syncVars, consVars,
                   fileOpen, pos, nfields, line, prodPanic, merchant, heap,
                   pcCloser, histVars>>

\* Fault variant of ParseLine: both numbers are taken from the last field.
ParseLineWrongColumn(l) ==
    LET bc == ParseInt(l[Len(l)])
    IN  IF ~bc.ok
        THEN [kind |-> "err", RetailerID |-> Zero64, branchCount |-> 0]
        ELSE [kind |-> "ok", RetailerID |-> bc.val,
              branchCount |-> NarrowInt32(bc.val)]

\* The body of the loop after a successful read, up to the send: parse
\* line[0], parse line[1], narrow it.  line[1] of a one-field record is an
\* index out of range.
ParseLine(l) ==
    LET failed == [kind |-> "err", RetailerID |-> Zero64, branchCount |-> 0]
        panic  == [kind |-> "panic", RetailerID |-> Zero64, branchCount |-> 0]
    IN  The({IF ~id.ok THEN failed
             ELSE IF Len(l) < 2 THEN panic
             ELSE The({IF ~bc.ok THEN failed
                       ELSE [kind |-> "ok", RetailerID |-> id.val,
                             branchCount |-> NarrowInt32(bc.val)] :
                          bc \in {ParseInt(l[2])}}) :
                id \in {ParseInt(l[1])}})

\* Fault variant of OnParseError: the line is skipped and the loop goes on.
SkipOnParseError == "read"

\* Fault variant of OnParseError: file.Close is not deferred, and the return
\* on a parse error leaves without it.
ReturnWithoutClose == "wgDone"

\* Where fileLoader goes on a parse error: return err, through the deferred
\* calls.
OnParseError == "closeFile"

\* Fault variant of NewBranchCount: branchCount is one variable declared
\* before the loop, every record points to it.
SharedBranchCount(h) == 1

\* branchCount := int32(branchCountInt64) declares a new variable in each
\* iteration; merchant.BranchCount points to it.
NewBranchCount(h) == Len(h) + 1

Parse ==
    /\ Alive /\ pcProd = "parse"
    /\ \E r \in {ParseLine(line)} :
           IF r.kind = "ok"
           THEN LET p == NewBranchCount(heap)
                IN  /\ heap' = [i \in 1..(IF p > Len(heap) THEN p ELSE Len(heap)) |->
                                  IF i = p THEN r.branchCount ELSE heap[i]]
                    /\ merchant' = [RetailerID |-> r.RetailerID, BranchCount |-> p]
                    /\ pcProd' = "send"
                    /\ UNCHANGED <<prodErr, prodPanic>>
           ELSE IF r.kind = "err"
           THEN /\ prodErr' = "parse"
                /\ pcProd' = OnParseError
                /\ UNCHANGED <<heap, merchant, prodPanic>>
           ELSE /\ prodPanic' = TRUE
                /\ pcProd' = "closeFile"
                /\ UNCHANGED <<heap, merchant, prodErr>>
    /\ UNCHANGED <<envVars, table, crashed, mainVars, syncVars, consVars,
                   fileOpen, pos, nfields, line, pcCloser, histVars>>

\* The deferred func: err = file.Close().  It runs on return and on panic.
CloseFile ==
    /\ Alive /\ pcProd = "closeFile"
    /\ fileOpen' = FALSE
    /\ pcProd' = "wgDone"
    /\ UNCHANGED <<envVars, table, crashed, mainVars, syncVars, consVars, pos,
                   nfields, line, prodErr, prodPanic, merchant, heap, pcCloser,
                   histVars>>

\* The deferred wg.Done(), the last thing fileLoader does; then the
\* goroutine logs the error and ends, or the panic goes on.
WgDone ==
    /\ Alive /\ pcProd = "wgDone"
    /\ wg' = wg - 1
    /\ pcProd' = IF prodPanic THEN "dying" ELSE "exit"
    /\ UNCHANGED <<envVars, table, crashed, mainVars, pipeClosed, consVars,
                   fileOpen, pos, nfields, line, prodErr, prodPanic, merchant,
                   heap, pcCloser, histVars>>

\* A panic no goroutine recovers ends the process.
ProducerPanic ==
    /\ Alive /\ pcProd = "dying"
    /\ crashed' = TRUE
    /\ UNCHANGED <<envVars, table, mainVars, syncVars, consVars, prodVars,
                   pcCloser, histVars>>

(***************************************************************************)
(* The consumer goroutine and updateBranchCount.                           *)
(***************************************************************************)
\* Fault variant of CanReceive: pipe has a buffer, a send completes whatever
\* the consumer is doing.
BufferedSend(pc) == TRUE

\* pipe := make(chan Merchant) has no buffer: a send completes only with the
\* consumer at merchant, more := <-pipe.
CanReceive(pc) == pc = "recv"

\* pipe <- merchant meets merchant, more := <-pipe: pipe is unbuffered, so
\* the send and the receive are one step.  The struct is copied.
Handoff ==
    /\ Alive /\ pcProd = "send" /\ CanReceive(pcCons) /\ ~pipeClosed
    /\ cmerchant' = merchant
    /\ pcProd' = "read"
    /\ pcCons' = "handle"
    /\ sent' = Append(sent, [RetailerID |-> merchant.RetailerID,
                             BranchCount |-> merchant.BranchCount,
                             count |-> heap[merchant.BranchCount],
                             line |-> pos])
    /\ UNCHANGED <<envVars, table, crashed, mainVars, syncVars, mrow, fileOpen,
                   pos, nfields, line, prodErr, prodPanic, merchant, heap,
                   pcCloser, calls, log, writes>>

\* merchant, more := <-pipe on the closed channel: more is false.
RecvClosed ==
    /\ Alive /\ pcCons = "recv" /\ pipeClosed
    /\ pcCons' = "sendDone"
    /\ UNCHANGED <<envVars, table, crashed, mainVars, syncVars, cmerchant, mrow,
                   prodVars, pcCloser, histVars>>

\* done <- true meets <-done of handleMerchant, which returns.
SendDone ==
    /\ Alive /\ pcCons = "sendDone" /\ pcMain = "waitDone"
    /\ pcCons' = "exit"
    /\ pcMain' = "returned"
    /\ UNCHANGED <<envVars, table, crashed, db, dbFailed, syncVars, cmerchant,
                   mrow, prodVars, pcCloser, histVars>>

\* Fault variant of Lookup: the query of Find, which reports no error and
\* leaves the zero Merchant when there is no row.
LookupFind(t, k) ==
    [found |-> TRUE, row |-> IF k \in DOMAIN t THEN t[k] ELSE ZeroRow]

\* SELECT * FROM merchant WHERE retailer_id = k LIMIT 1, as Take runs it: no
\* row is gorm.ErrRecordNotFound.
Lookup(t, k) ==
    IF k \in DOMAIN t THEN [found |-> TRUE, row |-> t[k]]
    ELSE [found |-> FALSE, row |-> ZeroRow]

\* Fault variant of ShouldUpdate: the nil check is left out.
ShouldUpdateAlways(row) == TRUE

\* if merchant.BranchCount == nil
ShouldUpdate(row) == row.branch_count = NULL

\* Fault variant of AfterCallError: the consumer gives up the batch and
\* signals completion.
AbortOnCallError == "sendDone"

\* What the consumer does when updateBranchCount returns an error: it logs
\* the error and receives again.
AfterCallError == "recv"

\* Fault variant of AfterCall: the consumer signals completion after the
\* first record it has handled.
DoneAfterCall == "sendDone"

\* What the consumer does when updateBranchCount returns nil: the for loop
\* receives again.
AfterCall == "recv"

LogEntry(m, outcome) ==
    [RetailerID |-> m.RetailerID, BranchCount |-> m.BranchCount,
     outcome |-> outcome]

\* updateBranchCount called with a usable handle, up to the end of
\* db.Table(tableName).Clauses(cond).Take(merchant): the statement fails, or
\* finds no row (gorm.ErrRecordNotFound, return nil), or reads the row.
Take ==
    /\ Alive /\ pcCons = "handle" /\ db = "open"
    /\ calls' = Append(calls, cmerchant)
    /\ \E fail \in BOOLEAN :
         IF fail
         THEN /\ log' = Append(log, LogEntry(cmerchant, "lookupErr"))
              /\ pcCons' = AfterCallError
              /\ UNCHANGED mrow
         ELSE IF ~Lookup(table, cmerchant.RetailerID).found
         THEN /\ log' = Append(log, LogEntry(cmerchant, "notFound"))
              /\ pcCons' = AfterCall
              /\ UNCHANGED mrow
         ELSE /\ mrow' = Lookup(table, cmerchant.RetailerID).row
              /\ IF ShouldUpdate(mrow')
                 THEN /\ pcCons' = "update"
                      /\ UNCHANGED log
                 ELSE /\ log' = Append(log, LogEntry(cmerchant, "alreadySet"))
                      /\ pcCons' = AfterCall
    /\ UNCHANGED <<envVars, table, crashed, mainVars, syncVars, cmerchant,
                   prodVars, pcCloser, sent, writes>>

\* updateBranchCount called with the nil handle newDB returned beside its
\* error: db.Table dereferences it, a nil pointer panic.
TakeOnNilDB ==
    /\ Alive /\ pcCons = "handle" /\ db = "nil"
    /\ calls' = Append(calls, cmerchant)
    /\ pcCons' = "dying"
    /\ UNCHANGED <<envVars, table, crashed, mainVars, syncVars, cmerchant, mrow,
                   prodVars, pcCloser, sent, log, writes>>

ConsumerPanic ==
    /\ Alive /\ pcCons = "dying"
    /\ crashed' = TRUE
    /\ UNCHANGED <<envVars, table, mainVars, syncVars, consVars, prodVars,
                   pcCloser, histVars>>

\* Fault variant of ApplyUpdate: the WHERE clause is left out.
ApplyUpdateNoWhere(t, k, v) ==
    [key \in DOMAIN t |-> [t[key] EXCEPT !.branch_count = Some(v)]]

\* Fault variant of ApplyUpdate: the whole row is saved from a Merchant that
\* holds the key and the count only, so expire_at gets its zero value.
ApplyUpdateWholeRow(t, k, v) ==
    [key \in DOMAIN t |->
        IF key = k THEN [branch_count |-> Some(v), expire_at |-> 0] ELSE t[key]]

\* UPDATE merchant SET branch_count = v WHERE retailer_id = k
ApplyUpdate(t, k, v) ==
    [key \in DOMAIN t |->
        IF key = k THEN [t[key] EXCEPT !.branch_count = Some(v)] ELSE t[key]]

\* db.Table(tableName).Clauses(cond).Update(columnName, *branchCount)
Update ==
    /\ Alive /\ pcCons = "update"
    /\ \E fail \in BOOLEAN :
         IF fail
         THEN /\ log' = Append(log, LogEntry(cmerchant, "updateErr"))
              /\ pcCons' = AfterCallError
              /\ UNCHANGED <<table, writes>>
         ELSE /\ table' = ApplyUpdate(table, cmerchant.RetailerID,
                                      heap[cmerchant.BranchCount])
              /\ writes' = Append(writes, [key |-> cmerchant.RetailerID,
                                           value |-> heap[cmerchant.BranchCount],
                                           before |-> table])
              /\ log' = Append(log, LogEntry(cmerchant, "updated"))
              /\ pcCons' = AfterCall
    /\ UNCHANGED <<envVars, crashed, mainVars, syncVars, cmerchant, mrow,
                   prodVars, pcCloser, sent, calls>>

(***************************************************************************)
(* The environment: a second run of the program, and other writers of the  *)
(* merchant table.                                                         *)
(***************************************************************************)
StoreErrors ==
    {i \in 1..Len(log) : log[i].outcome \in {"lookupErr", "updateErr"}}

\* The program is started again on the same file and the store as it is.
\* prev keeps the store the run left, whether the run met no store error and
\* no error opening or reading the file, and whether it applied an UPDATE.
Rerun ==
    /\ Alive /\ pcMain = "returned"
    /\ prev = <<>>
    /\ prev' = Append(prev, [table |-> table,
                             clean |-> StoreErrors = {}
                                       /\ prodErr \notin {"open", "io"},
                             wrote |-> writes # <<>>])
    /\ table0' = table
    /\ crashed' = FALSE /\ pcMain' = "newDB" /\ db' = "nil" /\ dbFailed' = FALSE
    /\ wg' = 0 /\ pipeClosed' = FALSE
    /\ pcCons' = "none" /\ cmerchant' = Merchant /\ mrow' = ZeroRow
    /\ pcProd' = "none" /\ fileOpen' = FALSE /\ pos' = 0 /\ nfields' = 0
    /\ line' = <<>> /\ prodErr' = "nil" /\ prodPanic' = FALSE
    /\ merchant' = Merchant /\ heap' = <<>>
    /\ pcCloser' = "none"
    /\ sent' = <<>> /\ calls' = <<>> /\ log' = <<>> /\ writes' = <<>>
    /\ UNCHANGED <<file, table, otherWrites>>

OtherValues == {5}

\* Another writer sets the branch_count of a row.
OtherWriter ==
    /\ otherWrites < MaxOtherWrites
    /\ \E k \in DOMAIN table, v \in OtherValues :
         table' = ApplyUpdate(table, k, v)
    /\ otherWrites' = otherWrites + 1
    /\ UNCHANGED <<file, table0, prev, crashed, mainVars, syncVars, consVars,
                   prodVars, pcCloser, histVars>>

(***************************************************************************)
(* Specifications.                                                         *)
(***************************************************************************)
Next ==
    \/ NewDB \/ GoConsumer \/ WgAdd \/ GoProducer \/ GoCloser
    \/ WgWait \/ ClosePipe
    \/ OpenFile \/ ReadRecord \/ ReadIOError \/ Parse \/ CloseFile \/ WgDone
    \/ ProducerPanic
    \/ Handoff \/ RecvClosed \/ SendDone \/ Take \/ TakeOnNilDB
    \/ ConsumerPanic \/ Update

\* One run of the program, alone on the store.
Spec == Init /\ [][Next]_vars

\* One run under a fair scheduler: a goroutine that can take a step
\* eventually takes one.
FairSpec == Init /\ [][Next]_vars /\ WF_vars(Next)

NextTwice == Next \/ Rerun

\* The program run again after it has returned.
SpecTwice == Init /\ [][NextTwice]_vars

NextShared == Next \/ OtherWriter

\* One run on a store that other writers use.
SpecShared == Init /\ [][NextShared]_vars

(***************************************************************************)
(* Properties.                                                             *)
(***************************************************************************)
Returned == pcMain = "returned"

\* The indices of the records handed over whose key is k.
SentFor(k) == {i \in 1..Len(sent) : sent[i].RetailerID = k}

\* The indices of the applied UPDATE statements on key k.
WritesFor(k) == {i \in 1..Len(writes) : writes[i].key = k}

Min(S) == CHOOSE x \in S : \A y \in S : x <= y

\* C1: in a run of the pipeline alone on the store, no step removes a row,
\* and a row whose branch_count is present keeps that value: the only change
\* ever made to a branch_count is from NULL to a value.
C1_PresentValueKept ==
    [][\A k \in DOMAIN table :
          /\ k \in DOMAIN table'
          /\ table[k].branch_count # NULL
                => table'[k].branch_count = table[k].branch_count]_vars

\* A run has returned in which one call found a value already set, different
\* from the one in the file, and another call wrote a NULL branch_count.
C1_Witness ==
    /\ Returned
    /\ \E i \in 1..Len(log) :
          /\ log[i].outcome = "alreadySet"
          /\ table[log[i].RetailerID].branch_count # Some(heap[log[i].BranchCount])
          /\ table0[log[i].RetailerID].branch_count # NULL
    /\ \E i \in 1..Len(log) : log[i].outcome = "updated"

\* C2: when a run has returned and no store call failed, every row that was
\* NULL at the start and whose key occurs in a record handed over has got
\* exactly one UPDATE, with the count of the first such record, and holds it;
\* every row that had a value has got no UPDATE and is as it was.
C2_ConditionalWrite ==
    (Returned /\ StoreErrors = {}) =>
        \A k \in DOMAIN table0 :
            IF table0[k].branch_count # NULL
            THEN WritesFor(k) = {} /\ table[k] = table0[k]
            ELSE IF SentFor(k) # {}
            THEN /\ Cardinality(WritesFor(k)) = 1
                 /\ \A w \in WritesFor(k) :
                       writes[w].value = sent[Min(SentFor(k))].count
                 /\ table[k] = [table0[k] EXCEPT !.branch_count =
                                   Some(sent[Min(SentFor(k))].count)]
            ELSE WritesFor(k) = {} /\ table[k] = table0[k]

\* The example of the specification, on keys 1 and 2: the file holds a record
\* for each key, row 1 was NULL and row 2 was 3; row 1 ends as the file says
\* and row 2 as 3.
C2_Witness ==
    /\ Returned /\ StoreErrors = {}
    /\ Len(sent) = 2
    /\ sent[1].RetailerID = Widen(1) /\ sent[2].RetailerID = Widen(2)
    /\ DOMAIN table0 = Keys
    /\ table0[Widen(1)].branch_count = NULL
    /\ table0[Widen(2)].branch_count = Some(3)
    /\ table[Widen(1)].branch_count = Some(7)
    /\ table[Widen(2)].branch_count = Some(3)

\* Records i and j handed over are the same record.
SameRecord(i, j) ==
    /\ sent[i].RetailerID = sent[j].RetailerID
    /\ sent[i].count = sent[j].count

\* The number of calls among i and j that applied an UPDATE.
UpdatedAmong(S) == Cardinality({j \in S : log[j].outcome = "updated"})

\* Before call i the row of its key exists and its branch_count is NULL.
RowAbsentBefore(i) ==
    /\ log[i].RetailerID \in DOMAIN table0
    /\ table0[log[i].RetailerID].branch_count = NULL
    /\ \A j \in 1..(i - 1) :
          ~(log[j].outcome = "updated" /\ log[j].RetailerID = log[i].RetailerID)

FirstRunClean ==
    /\ prev # <<>>
    /\ prev[1].clean

Forwarded ==
    IF prodErr \in {"parse", "fieldCount"} \/ prodPanic THEN pos - 1 ELSE pos

\* C4: the records handed over are the lines of the file in order, each with
\* the retailer id parsed from its first field; the calls of
\* updateBranchCount are made on these records in this order, at most one
\* behind; when the run has returned every record handed over has been
\* passed to a call, and these are all the lines read before fileLoader
\* stopped.
C4_OrderPreserved ==
    /\ Len(sent) <= pos
    /\ \A i \in 1..Len(sent) :
          /\ sent[i].line = i
          /\ ParseLine(file[i]).kind = "ok"
          /\ sent[i].RetailerID = ParseInt(file[i][1]).val
    /\ Len(calls) <= Len(sent) /\ Len(sent) <= Len(calls) + 1
    /\ \A i \in 1..Len(calls) : calls[i].RetailerID = sent[i].RetailerID
    /\ Returned => (Len(calls) = Len(sent) /\ Len(sent) = Forwarded)

\* A run has returned after calls on two records with different keys, in the
\* order of the file.
C4_Witness ==
    /\ Returned
    /\ Len(calls) = 2
    /\ calls[1].RetailerID = ParseInt(file[1][1]).val
    /\ calls[2].RetailerID = ParseInt(file[2][1]).val
    /\ calls[1].RetailerID # calls[2].RetailerID

\* C5: under a fair scheduler every run ends with handleMerchant returning.
C5_Terminates == <>Returned

\* C6: once fileLoader has met a parse error, the line it stopped at is the
\* last one read and is the failing line, fileLoader is on its way out and
\* reads and sends no more, the records handed over are exactly the lines
\* before the failing one, and when the run has returned every one of them
\* has been through a complete call of updateBranchCount.
C6_FailFast ==
    prodErr = "parse" =>
        /\ pcProd \in {"closeFile", "wgDone", "exit"}
        /\ pos >= 1 /\ ParseLine(file[pos]).kind = "err"
        /\ Len(sent) = pos - 1
        /\ \A i \in 1..Len(sent) : sent[i].line = i
        /\ Returned => (Len(calls) = Len(sent) /\ Len(log) = Len(sent))

\* A run has returned after a parse error at line 2: the record of line 1
\* was handed over before and its UPDATE was applied.
C6_Witness ==
    /\ Returned /\ prodErr = "parse"
    /\ pos = 2
    /\ Len(log) = 1 /\ log[1].outcome = "updated"

\* C7: a run in which a store call has failed still returns, and when it has
\* returned fileLoader is done and every record it read and parsed was
\* handed over and went through a complete call of updateBranchCount.
C7_StoreErrorsNotFatal ==
    /\ [](  (Returned /\ StoreErrors # {}) =>
               /\ pcProd = "exit"
               /\ Len(sent) = Forwarded
               /\ Len(calls) = Len(sent) /\ Len(log) = Len(sent))
    /\ (StoreErrors # {}) ~> Returned

\* A run has returned in which the call on the first record failed and the
\* call on the second record was made and completed.
C7_Witness ==
    /\ Returned
    /\ Len(log) = 2
    /\ 1 \in StoreErrors
    /\ log[2].outcome = "updated"

\* The calls made on a key that had no row when the run started.
MissingKeyCalls ==
    {i \in 1..Len(log) : log[i].RetailerID \notin DOMAIN table0}

\* C8: a call on a key without a row ends as "not found", the success
\* return, unless the lookup itself fails; it applies no UPDATE, no step
\* adds a row, the table is left as it was while the consumer handles such a
\* record, and when the run has returned every record handed over, those
\* after it included, has been through a call.
C8_MissingKeyTolerated ==
    /\ [](/\ DOMAIN table = DOMAIN table0
          /\ \A i \in MissingKeyCalls :
                /\ log[i].outcome \in {"notFound", "lookupErr"}
                /\ i \notin StoreErrors => log[i].outcome = "notFound"
          /\ \A w \in 1..Len(writes) : writes[w].key \in DOMAIN table0
          /\ Returned => (Len(calls) = Len(sent) /\ Len(log) = Len(sent)))
    /\ [][(pcCons \in {"handle", "update"}
              /\ cmerchant.RetailerID \notin DOMAIN table) => table' = table]_vars

\* A run has returned in which the first record named a key without a row:
\* the call ended as "not found", and the call on the next record applied
\* an UPDATE.
C8_Witness ==
    /\ Returned
    /\ Len(log) = 2
    /\ 1 \in MissingKeyCalls /\ log[1].outcome = "notFound"
    /\ log[2].outcome = "updated"
    /\ Len(writes) = 1

\* C9: when newDB has failed no line is read from the file, nothing is sent
\* on pipe and updateBranchCount is never called.
C9_NewDBFailureStopsRun ==
    dbFailed =>
        /\ pos = 0
        /\ sent = <<>>
        /\ calls = <<>>

\* C10: every UPDATE the pipeline applies finds the branch_count of its row
\* still NULL, whatever other writers of the table do.
C10_WriteOnlyWhereAbsent ==
    \A w \in 1..Len(writes) :
        writes[w].key \in DOMAIN writes[w].before =>
            writes[w].before[writes[w].key].branch_count = NULL

\* C11: the records read are at most one ahead of the records received; line
\* k+1 is parsed, or waits in a send, only when the records of all k lines
\* before it have been received; the parsed records not yet taken are one
\* while fileLoader waits in its send and none otherwise; and a send
\* completes only in a step in which the consumer, at its receive, takes the
\* record.
C11_Backpressure ==
    /\ [](/\ Len(sent) <= pos /\ pos <= Len(sent) + 1
          /\ pcProd \in {"parse", "send"} => Len(sent) = pos - 1
          /\ Len(heap) - Len(sent) = IF pcProd = "send" THEN 1 ELSE 0)
    /\ [][Len(sent') > Len(sent) =>
             /\ pcProd = "send" /\ pcCons = "recv"
             /\ pcCons' = "handle" /\ cmerchant' = merchant
             /\ Len(sent') = Len(sent) + 1]_vars

\* fileLoader waits in the send of the record of line 2 while the consumer
\* is still in updateBranchCount for the record of line 1.
C11_Witness ==
    /\ pcProd = "send" /\ pos = 2
    /\ pcCons \in {"handle", "update"}
    /\ Len(sent) = 1 /\ Len(heap) = 2

\* func handleMerchant() declares no result; the error of newDB and the error
\* of fileLoader end in logrus.Error and logrus.Errorf.  Whatever these two
\* errors are, the caller gets the same from a call that returns: nothing.
handleMerchantResult(dbErr, loadErr) == <<>>

\* C12: when handleMerchant has returned after newDB or fileLoader failed,
\* what it hands to its caller differs from what it hands to its caller
\* after a run without any such failure.
C12_FailureReported ==
    (Returned /\ (dbFailed \/ prodErr # "nil")) =>
        handleMerchantResult(dbFailed, prodErr) # handleMerchantResult(FALSE, "nil")

\* C13: in a run alone on the store the table keeps its set of keys, every
\* row keeps its expire_at, and a row whose branch_count is not what it was
\* at the start had NULL at the start and has its key in a record handed
\* over.
C13_Frame ==
    /\ DOMAIN table = DOMAIN table0
    /\ \A k \in DOMAIN table0 :
          /\ table[k].expire_at = table0[k].expire_at
          /\ table[k].branch_count # table0[k].branch_count =>
                /\ table0[k].branch_count = NULL
                /\ SentFor(k) # {}

\* A run has returned on a table of two rows, both NULL at the start, and a
\* file with records for key 1 only: row 1 has got its count and kept its
\* expire_at, row 2 is as it was.
C13_Witness ==
    /\ Returned
    /\ DOMAIN table0 = Keys
    /\ \A k \in Keys : table0[k].branch_count = NULL
    /\ SentFor(Widen(1)) # {} /\ SentFor(Widen(2)) = {}
    /\ table[Widen(1)] = [branch_count |-> Some(7),
                          expire_at |-> ExpireOf(Widen(1))]
    /\ table[Widen(2)] = table0[Widen(2)]

\* C14: the count of every record handed over, and the value of every UPDATE
\* applied for it, is the integer written in the second field of its line.
C14_NarrowingKeepsValue ==
    /\ \A i \in 1..Len(sent) :
          Widen(sent[i].count) = ParseInt(file[sent[i].line][2]).val
    /\ \A w \in 1..Len(writes) :
          \E i \in 1..Len(sent) :
             /\ writes[w].key = sent[i].RetailerID
             /\ Widen(writes[w].value) = ParseInt(file[sent[i].line][2]).val

\* C15: pipe is closed by one step, the close of the closer goroutine, and
\* never reopened or closed again; when the closer is about to close it and
\* ever after, fileLoader has returned and its wg.Done has brought the
\* counter to zero, so no send meets the closed channel; and when the
\* consumer has seen the channel closed, every record fileLoader parsed has
\* been handed over to it.
C15_CloseAfterProducer ==
    /\ [](/\ wg \in {0, 1}
          /\ (pipeClosed \/ pcCloser = "close") =>
                (wg = 0 /\ pcProd \in {"exit", "dying"})
          /\ pipeClosed <=> pcCloser = "exit"
          /\ pcCons \in {"sendDone", "exit"} =>
                (pipeClosed /\ Len(sent) = Forwarded /\ Len(heap) = Len(sent)))
    /\ [][pipeClosed' # pipeClosed =>
             (~pipeClosed /\ pcCloser = "close" /\ pcCloser' = "exit")]_vars

\* The consumer has seen pipe closed after it received the records of both
\* lines of the file.
C15_Witness ==
    /\ pipeClosed /\ pcCons = "sendDone"
    /\ pcProd = "exit" /\ prodErr = "nil"
    /\ Len(sent) = 2 /\ Len(calls) = 2

\* The state of the coordinator: 0 Idle, 1 Running once the consumer and the
\* producer are both started, 2 Draining once pipe is closed, 3 Done once
\* handleMerchant has returned.
Phase ==
    IF Returned THEN 3
    ELSE IF pipeClosed THEN 2
    ELSE IF pcCons # "none" /\ pcProd # "none" THEN 1
    ELSE 0

\* C16: the phase never goes back and moves one phase at a time;
\* handleMerchant has returned exactly when the consumer has sent on done
\* and ended, which it does after it saw pipe closed; by then fileLoader is
\* over, every record it parsed was handed over and every call of
\* updateBranchCount on them is complete; and once handleMerchant has
\* returned the consumer takes no step and no call, log entry, UPDATE or
\* change of the table follows.
C16_Lifecycle ==
    /\ [](/\ Returned <=> pcCons = "exit"
          /\ Returned =>
                /\ pipeClosed /\ pcProd \in {"exit", "dying"}
                /\ Len(sent) = Forwarded
                /\ Len(calls) = Len(sent) /\ Len(log) = Len(calls))
    /\ [][Phase' \in {Phase, Phase + 1}]_vars
    /\ [][Returned =>
             /\ Returned'
             /\ consVars' = consVars
             /\ table' = table /\ histVars' = histVars]_vars

\* handleMerchant has returned after two complete calls of
\* updateBranchCount, of which one applied an UPDATE.
C16_Witness ==
    /\ Phase = 3
    /\ pcCons = "exit" /\ pcCloser = "exit" /\ pcProd = "exit"
    /\ Len(log) = 2 /\ writes # <<>>

\* The line fileLoader stopped at has fewer than two fields.
StoppedAtShortLine ==
    /\ pcProd \in {"closeFile", "wgDone", "exit", "dying"}
    /\ pos >= 1 /\ Len(file[pos]) < 2
    /\ prodErr # "io"

\* C17: fileLoader never panics and the process never dies of it; when
\* fileLoader has stopped at a line of fewer than two fields it returns an
\* error and no record of that line was handed over.
C17_ShortLineIsInputError ==
    /\ ~prodPanic
    /\ pcProd # "dying"
    /\ StoppedAtShortLine => (prodErr # "nil" /\ Len(sent) <= pos - 1)

\* The calls made so far on records handed over whose key is k.
CallsFor(k) == {i \in SentFor(k) : i <= Len(log)}

\* C18: for a key whose row had NULL at the start and which several records
\* handed over carry, as long as no store call has failed: the call on the
\* first of them applies the UPDATE, no other UPDATE of the key is applied,
\* the call on every later one finds the value set and writes nothing, and
\* from the first call on the row holds the count of the first record.
C18_FirstDuplicateWins ==
    StoreErrors = {} =>
        \A k \in DOMAIN table0 :
            (table0[k].branch_count = NULL /\ Cardinality(SentFor(k)) >= 2
                /\ CallsFor(k) # {}) =>
               /\ log[Min(SentFor(k))].outcome = "updated"
               /\ Cardinality(WritesFor(k)) = 1
               /\ \A w \in WritesFor(k) :
                     writes[w].value = sent[Min(SentFor(k))].count
               /\ \A i \in CallsFor(k) \ {Min(SentFor(k))} :
                     log[i].outcome = "alreadySet"
               /\ table[k].branch_count = Some(sent[Min(SentFor(k))].count)

\* A run has returned over a file with two records for key 1, counts 7 and
\* 9, on a row that had NULL: the row holds 7, after one UPDATE.
C18_Witness ==
    /\ Returned /\ StoreErrors = {}
    /\ SentFor(Widen(1)) = {1, 2}
    /\ sent[1].count = 7 /\ sent[2].count = 9
    /\ Widen(1) \in DOMAIN table0 /\ table0[Widen(1)].branch_count = NULL
    /\ table[Widen(1)].branch_count = Some(7)
    /\ Len(writes) = 1 /\ log[2].outcome = "alreadySet"

\* C19: the file is open while fileLoader reads, parses or waits in its
\* send, and closed once fileLoader is past its deferred close, however it
\* left the loop; the only step that closes the file is that deferred close.
C19_FileReleased ==
    /\ [](/\ pcProd \in {"read", "parse", "send"} => fileOpen
          /\ pcProd \in {"wgDone", "exit", "dying"} => ~fileOpen
          /\ fileOpen => pcProd \in {"read", "parse", "send", "closeFile"})
    /\ [][(fileOpen /\ ~fileOpen') => pcProd = "closeFile"]_vars

\* fileLoader has returned a parse error met at line 2, after the record of
\* line 1 was handed over, and the file is closed.
C19_Witness ==
    /\ pcProd = "exit" /\ prodErr = "parse"
    /\ pos = 2 /\ Len(sent) = 1
    /\ ~fileOpen

\* C20: every record handed over holds the retailer id of its line and
\* points to an int32 of its own, which holds the count of that line when
\* the record is handed over and ever after; every call of updateBranchCount
\* gets the id and the pointer of its record, and every UPDATE applied
\* carries the key and the count of one record handed over.
C20_NoAliasing ==
    /\ \A i \in 1..Len(sent) :
          /\ sent[i].RetailerID = ParseLine(file[sent[i].line]).RetailerID
          /\ sent[i].count = ParseLine(file[sent[i].line]).branchCount
          /\ heap[sent[i].BranchCount] = sent[i].count
          /\ \A j \in 1..Len(sent) :
                i # j => sent[i].BranchCount # sent[j].BranchCount
    /\ \A i \in 1..Len(calls) :
          /\ calls[i].RetailerID = sent[i].RetailerID
          /\ calls[i].BranchCount = sent[i].BranchCount
    /\ \A w \in 1..Len(writes) :
          \E i \in 1..Len(sent) :
             /\ writes[w].key = sent[i].RetailerID
             /\ writes[w].value = sent[i].count

\* The consumer is about to apply the UPDATE for the record of line 1, key 2
\* and count 7, while fileLoader has parsed line 2, key 1 and count 9, into
\* its variable merchant and waits in its send.
C20_Witness ==
    /\ pcCons = "update" /\ pcProd = "send" /\ pos = 2
    /\ cmerchant.RetailerID = Widen(2) /\ heap[cmerchant.BranchCount] = 7
    /\ merchant.RetailerID = Widen(1) /\ heap[merchant.BranchCount] = 9

=============================================================================
